---- MODULE Spec2Model ----
(***************************************************************************)
(* Model of terminal_assistant.py: SystemDetector, and of class            *)
(* TerminalAssistant the safety classifier (_is_command_critical), the     *)
(* command executor (_execute_command), the two batch loops (auto_install, *)
(* fix_issue), run_with_confirmation and set_safety_level, driven by the   *)
(* interactive loop of main.                                               *)
(*                                                                         *)
(* Python strings are TLA+ strings; the string methods the code uses       *)
(* (lower, strip, the `in` substring test, shlex.split) are computed       *)
(* character by character.                                                 *)
(***************************************************************************)
EXTENDS Integers, Sequences, FiniteSets, TLC

VARIABLES
    system_detector, \* self.system_detector: os_name and package_manager
    safety_level,    \* self.safety_level
    level_source,    \* who wrote safety_level last: "default", "config", "set"
    pc,              \* where the session is: "idle" at main's prompt, inside a
                     \* batch loop, "respond" before main prints, or "exited"
    commands,        \* local `commands` of the running batch
    idx,             \* number of loop iterations of the running batch so far
    results,         \* local `results` of the running batch
    attempted,       \* test double: commands handed to _execute_command, in order
    shell_log,       \* test double: commands handed to subprocess.run, in order
    last_call,       \* test double: what the last _execute_command call did
    last_continue,   \* test double: the "Continue with remaining commands?"
                     \* prompt of the last fix_issue iteration
    response         \* what the last handler returned to main

vars == <<system_detector, safety_level, level_source, pc, commands, idx, results,
          attempted, shell_log, last_call, last_continue, response>>

-----------------------------------------------------------------------------
(* Python string primitives *)

\* s[i] of a Python string (1-based here)
Char(s, i) == SubSeq(s, i, i)

\* `sub in s` for Python strings
Contains(s, sub) ==
    \E i \in 1..(Len(s) - Len(sub) + 1) : SubSeq(s, i, i + Len(sub) - 1) = sub

Upper == "ABCDEFGHIJKLMNOPQRSTUVWXYZ"

LowerAlpha == "abcdefghijklmnopqrstuvwxyz"

\* str.lower() of one character
LowerChar(c) ==
    IF \E k \in 1..Len(Upper) : Char(Upper, k) = c
    THEN Char(LowerAlpha, CHOOSE k \in 1..Len(Upper) : Char(Upper, k) = c)
    ELSE c

RECURSIVE Lower(_)
\* str.lower()
Lower(s) == IF s = "" THEN "" ELSE LowerChar(Char(s, 1)) \o Lower(SubSeq(s, 2, Len(s)))

\* the characters str.strip() and shlex treat as whitespace
IsSpace(c) == c \in {" ", "\t", "\n", "\r"}

RECURSIVE LStrip(_)
LStrip(s) ==
    IF s # "" /\ IsSpace(Char(s, 1)) THEN LStrip(SubSeq(s, 2, Len(s))) ELSE s

RECURSIVE RStrip(_)
RStrip(s) ==
    IF s # "" /\ IsSpace(Char(s, Len(s))) THEN RStrip(SubSeq(s, 1, Len(s) - 1)) ELSE s

\* str.strip()
Strip(s) == RStrip(LStrip(s))

-----------------------------------------------------------------------------
(* shlex.split(command): POSIX mode, whitespace_split, no comments *)

\* the lexer's registers before the first character. state: " " between
\* tokens, "a" inside a word, a quote character inside quotes, "\\" after an
\* escape character, "None" past the end of the text; i: the next character
\* to read; done: read_token has left its loop; error: the ValueError raised
ShlexStart ==
    [state |-> " ", escapedstate |-> " ", token |-> "", quoted |-> FALSE,
     i |-> 1, done |-> FALSE, error |-> ""]

\* one pass of the loop of shlex.read_token: nextchar is read, "" at the end
\* of the text
ReadChar(s, r) ==
    LET nextchar == IF r.i > Len(s) THEN "" ELSE Char(s, r.i)
        read == [r EXCEPT !.i = r.i + 1]
    IN  CASE r.state = "None" ->
               [read EXCEPT !.token = "", !.done = TRUE]
          [] r.state = " " ->
               IF nextchar = ""
               THEN [read EXCEPT !.state = "None", !.done = TRUE]
               ELSE IF IsSpace(nextchar)
               THEN [read EXCEPT !.done = r.token # "" \/ r.quoted]
               ELSE IF nextchar = "\\"
               THEN [read EXCEPT !.escapedstate = "a", !.state = nextchar]
               ELSE IF nextchar \in {"'", "\""}
               THEN [read EXCEPT !.state = nextchar]
               ELSE [read EXCEPT !.token = nextchar, !.state = "a"]
          [] r.state \in {"'", "\""} ->
               IF nextchar = ""
               THEN [read EXCEPT !.quoted = TRUE, !.error = "No closing quotation"]
               ELSE IF nextchar = r.state
               THEN [read EXCEPT !.quoted = TRUE, !.state = "a"]
               ELSE IF nextchar = "\\" /\ r.state = "\""
               THEN [read EXCEPT !.quoted = TRUE, !.escapedstate = r.state,
                                 !.state = nextchar]
               ELSE [read EXCEPT !.quoted = TRUE, !.token = r.token \o nextchar]
          [] r.state = "\\" ->
               IF nextchar = ""
               THEN [read EXCEPT !.error = "No escaped character"]
               ELSE LET kept == IF r.escapedstate \in {"'", "\""}
                                   /\ nextchar # r.state
                                   /\ nextchar # r.escapedstate
                                THEN r.token \o r.state
                                ELSE r.token
                    IN [read EXCEPT !.token = kept \o nextchar,
                                    !.state = r.escapedstate]
          [] OTHER -> \* r.state = "a"
               IF nextchar = ""
               THEN [read EXCEPT !.state = "None", !.done = TRUE]
               ELSE IF IsSpace(nextchar)
               THEN [read EXCEPT !.state = " ", !.done = r.token # "" \/ r.quoted]
               ELSE IF nextchar \in {"'", "\""}
               THEN [read EXCEPT !.state = nextchar]
               ELSE IF nextchar = "\\"
               THEN [read EXCEPT !.escapedstate = "a", !.state = nextchar]
               ELSE [read EXCEPT !.token = r.token \o nextchar]

RECURSIVE ReadLoop(_, _)
\* the loop of shlex.read_token, until it breaks or raises; next is the
\* registers after one more pass, computed once per pass
ReadLoop(s, r) ==
    IF r.done \/ r.error # "" THEN r
    ELSE CHOOSE end \in {ReadLoop(s, next) : next \in {ReadChar(s, r)}} : TRUE

\* shlex.read_token: it starts with an empty token and quoted = False; the
\* state and the position are kept from one call to the next
ReadToken(s, r) ==
    ReadLoop(s, [r EXCEPT !.token = "", !.quoted = FALSE, !.escapedstate = " ",
                          !.done = FALSE])

RECURSIVE ShlexTokens(_, _, _)
\* list(lex): tokens are read until read_token gives None, which is an empty
\* token that was not quoted; read is the registers after one read_token
ShlexTokens(s, r, tokens) ==
    CHOOSE split \in
        {IF read.error # ""
         THEN [error |-> read.error, parts |-> <<>>]
         ELSE IF read.token = "" /\ ~read.quoted
         THEN [error |-> "", parts |-> tokens]
         ELSE ShlexTokens(s, read, Append(tokens, read.token)) :
            read \in {ReadToken(s, r)}} : TRUE

\* shlex.split: [error |-> "" and the tokens] or the ValueError it raises
ShlexSplit(s) == ShlexTokens(s, ShlexStart, <<>>)

-----------------------------------------------------------------------------
(* Module-level tables *)

CRITICAL_COMMANDS ==
    {"rm", "sudo", "mkfs", "dd", "format", "fdisk", "parted", "chmod", "chown",
     "passwd", "adduser", "deluser", "usermod", "groupmod", "mount", "umount",
     "shutdown", "reboot", "init", "systemctl"}

\* the literal lists inside _is_command_critical
dangerous_commands == {"rm -rf /", "mkfs", "dd if=", "shutdown", "halt", "poweroff"}

medium_sudo_commands == {"rm", "mkfs", "dd"}

medium_system_commands == {"shutdown", "reboot", "init"}

\* the answers every yes/no prompt of the file accepts as "go on"
YES_ANSWERS == {"yes", "y"}

-----------------------------------------------------------------------------
(* _is_command_critical *)

\* a returned bool, or the exception that leaves the method
Returned(b) == [raised |-> "", value |-> b, message |-> ""]

Raised(exc, msg) == [raised |-> exc, value |-> FALSE, message |-> msg]

\* CriticalLow that looks for the entries at the start of the text only
CriticalLow_startswith(command) ==
    Returned(\E dangerous \in dangerous_commands :
                /\ Len(command) >= Len(dangerous)
                /\ SubSeq(command, 1, Len(dangerous)) = dangerous)

\* the low branch
CriticalLow(command) ==
    Returned(\E dangerous \in dangerous_commands : Contains(command, dangerous))

\* CriticalMedium for which sudo alone is enough
CriticalMedium_any_sudo(command) ==
    Returned(\/ Contains(command, "sudo")
             \/ \E cmd \in medium_system_commands : Contains(command, cmd))

\* the medium branch
CriticalMedium(command) ==
    Returned(\/ /\ Contains(command, "sudo")
                /\ \E cmd \in medium_sudo_commands : Contains(command, cmd)
             \/ \E cmd \in medium_system_commands : Contains(command, cmd))

\* CriticalHigh that asks for confirmation when the text has no first token
CriticalHigh_fail_safe(command) ==
    LET split == ShlexSplit(command)
        command_parts == split.parts
    IN  IF split.error # "" \/ Len(command_parts) = 0
        THEN Returned(TRUE)
        ELSE LET base_cmd == command_parts[1] IN
             IF base_cmd = "sudo" /\ Len(command_parts) > 1
             THEN Returned(\/ command_parts[2] \in CRITICAL_COMMANDS
                           \/ base_cmd \in CRITICAL_COMMANDS)
             ELSE Returned(\/ base_cmd \in CRITICAL_COMMANDS
                           \/ Contains(command, "sudo"))

\* CriticalHigh without the test for "sudo" anywhere in the text
CriticalHigh_base_only(command) ==
    LET split == ShlexSplit(command)
        command_parts == split.parts
    IN  IF split.error # ""
        THEN Raised("ValueError", split.error)
        ELSE IF Len(command_parts) = 0
        THEN Raised("IndexError", "list index out of range")
        ELSE Returned(command_parts[1] \in CRITICAL_COMMANDS)

\* the high branch, reached for every level that is neither low nor medium
CriticalHigh(command) ==
    LET split == ShlexSplit(command)
        command_parts == split.parts
    IN  IF split.error # ""
        THEN Raised("ValueError", split.error)
        ELSE IF Len(command_parts) = 0
        THEN Raised("IndexError", "list index out of range")
        ELSE LET base_cmd == command_parts[1] IN
             IF base_cmd = "sudo" /\ Len(command_parts) > 1
             THEN Returned(\/ command_parts[2] \in CRITICAL_COMMANDS
                           \/ base_cmd \in CRITICAL_COMMANDS)
             ELSE Returned(\/ base_cmd \in CRITICAL_COMMANDS
                           \/ Contains(command, "sudo"))

IsCommandCritical(level, command) ==
    IF Lower(level) = "low" THEN CriticalLow(command)
    ELSE IF Lower(level) = "medium" THEN CriticalMedium(command)
    ELSE CriticalHigh(command)

\* every value self.safety_level takes in the model
LevelTexts == {"high", "medium", "low", "paranoid"}

\* every command text handed to _execute_command in the model
CommandTexts ==
    {"ls -la", "sudo rm -rf /tmp/x", "echo sudo", "rm myfile.txt",
     "dd if=/dev/zero of=/dev/sda", "halt", "mkfs.ext4 /dev/sdb1", "git init",
     "shutdown -h now", "sudo ls", "echo \"abc", "", "# retry",
     "sudo", "'rm' -f x", "poweroff", "sudo adduser bob", "reboot", "   ",
     "sudo apt update && sudo apt install -y vim",
     "sudo apt update && sudo apt install -y python3-pip",
     "sudo dnf install -y vim", "sudo dnf install -y python3-pip",
     "sudo pacman -S --noconfirm vim", "sudo pacman -S --noconfirm python3-pip",
     "brew install vim", "brew install python3-pip"}

\* IsCommandCritical, evaluated once for each level and command text
Verdicts ==
    [level \in LevelTexts |->
        [command \in CommandTexts |-> IsCommandCritical(level, command)]]

\* every line the operator types at a prompt in the model
TypedLines == {"yes", " Y ", "no", "", "custom"}

\* input(...).strip().lower(), evaluated once for each line of TypedLines
Confirmations == [text \in TypedLines |-> Lower(Strip(text))]

\* input(...).strip().lower()
Confirmation(text) == Confirmations[text]

-----------------------------------------------------------------------------
(* The operator at the terminal and the shell, as the code sees them *)

\* input(): a line, end of input (EOFError), or Ctrl-C (KeyboardInterrupt)
Line(text) == [kind |-> "line", text |-> text]

Eof == [kind |-> "eof", text |-> ""]

Interrupt == [kind |-> "interrupt", text |-> ""]

NoInput == [kind |-> "none", text |-> ""]

\* subprocess.run(command, shell=True, capture_output=True, text=True):
\* the process exits, or cannot be launched (OSError), or Ctrl-C arrives
Exit(rc, out, err) == [kind |-> "exit", returncode |-> rc, stdout |-> out, stderr |-> err]

LaunchFailure == [kind |-> "oserror", returncode |-> 0, stdout |-> "",
                  stderr |-> "[Errno 2] No such file or directory: '/bin/sh'"]

ShellInterrupt == [kind |-> "interrupt", returncode |-> 0, stdout |-> "", stderr |-> ""]

-----------------------------------------------------------------------------
(* _execute_command *)

CANCELLED == "Command execution cancelled (critical command)."

ERROR_PREFIX == "Error executing command: "

\* what one call did: whether it prompted and what the operator gave, whether
\* it reached subprocess.run and how that ended, and either the
\* (return_code, output) it returned or the exception that escaped it
Call(command, confirm_critical, level, prompted, answer, shell_kind, raised, rc, out) ==
    [made |-> TRUE, command |-> command, confirm_critical |-> confirm_critical,
     level |-> level, prompted |-> prompted, answer |-> answer,
     shell_runs |-> IF shell_kind = "none" THEN 0 ELSE 1, shell_kind |-> shell_kind,
     raised |-> raised, return_code |-> rc, output |-> out]

\* RunShell with an except clause that does not cover OSError
RunShell_uncaught(command, confirm_critical, level, prompted, answer, shell) ==
    CASE shell.kind = "exit" ->
            Call(command, confirm_critical, level, prompted, answer, shell.kind, "",
                 shell.returncode, shell.stdout \o shell.stderr)
      [] shell.kind = "oserror" ->
            Call(command, confirm_critical, level, prompted, answer, shell.kind,
                 "OSError", 0, "")
      [] OTHER ->
            Call(command, confirm_critical, level, prompted, answer, shell.kind,
                 "KeyboardInterrupt", 0, "")

\* subprocess.run and the lines after it: the process exits and its output is
\* returned, or OSError is caught by `except Exception`, or KeyboardInterrupt,
\* which is no Exception, leaves the method
RunShell(command, confirm_critical, level, prompted, answer, shell) ==
    CASE shell.kind = "exit" ->
            Call(command, confirm_critical, level, prompted, answer, shell.kind, "",
                 shell.returncode, shell.stdout \o shell.stderr)
      [] shell.kind = "oserror" ->
            Call(command, confirm_critical, level, prompted, answer, shell.kind, "",
                 1, ERROR_PREFIX \o shell.stderr)
      [] OTHER ->
            Call(command, confirm_critical, level, prompted, answer, shell.kind,
                 "KeyboardInterrupt", 0, "")

\* AfterConfirmation that reports a cancelled command as a failure
AfterConfirmation_cancel_fails(command, confirm_critical, level, answer, shell) ==
    LET confirmation == Confirmation(answer.text) IN
    IF confirmation \notin YES_ANSWERS
    THEN Call(command, confirm_critical, level, TRUE, answer, "none", "", 1, CANCELLED)
    ELSE RunShell(command, confirm_critical, level, TRUE, answer, shell)

\* AfterConfirmation with a refusal list in place of the acceptance list
AfterConfirmation_refusals(command, confirm_critical, level, answer, shell) ==
    LET confirmation == Confirmation(answer.text) IN
    IF confirmation \in {"no", "n"}
    THEN Call(command, confirm_critical, level, TRUE, answer, "none", "", 0, CANCELLED)
    ELSE RunShell(command, confirm_critical, level, TRUE, answer, shell)

\* the branch taken once the operator's line is read
AfterConfirmation(command, confirm_critical, level, answer, shell) ==
    LET confirmation == Confirmation(answer.text) IN
    IF confirmation \notin YES_ANSWERS
    THEN Call(command, confirm_critical, level, TRUE, answer, "none", "", 0, CANCELLED)
    ELSE RunShell(command, confirm_critical, level, TRUE, answer, shell)

\* self._is_command_critical(command) under self.safety_level = level, looked
\* up in Verdicts, which holds IsCommandCritical for every text of the model
IsCritical(level, command) == Verdicts[level][command]

\* `answer` is read only if the prompt is reached, `shell` only if
\* subprocess.run is reached
ExecuteCommand(level, command, confirm_critical, answer, shell) ==
    LET critical == IF confirm_critical
                    THEN IsCritical(level, command)
                    ELSE Returned(FALSE)
    IN  IF critical.raised # ""
        THEN Call(command, confirm_critical, level, FALSE, NoInput, "none", "",
                  1, ERROR_PREFIX \o critical.message)
        ELSE IF critical.value
        THEN CASE answer.kind = "line" ->
                    AfterConfirmation(command, confirm_critical, level, answer, shell)
               [] answer.kind = "eof" ->
                    Call(command, confirm_critical, level, TRUE, answer, "none", "",
                         1, ERROR_PREFIX \o "EOF when reading a line")
               [] OTHER ->
                    Call(command, confirm_critical, level, TRUE, answer, "none",
                         "KeyboardInterrupt", 0, "")
        ELSE RunShell(command, confirm_critical, level, FALSE, NoInput, shell)

\* no call of _execute_command since main last printed
NoCall ==
    [made |-> FALSE, command |-> "", confirm_critical |-> FALSE, level |-> "",
     prompted |-> FALSE, answer |-> NoInput, shell_runs |-> 0, shell_kind |-> "none",
     raised |-> "", return_code |-> 0, output |-> ""]

-----------------------------------------------------------------------------
(* SystemDetector *)

PACKAGE_MANAGERS ==
    [d \in {"debian", "ubuntu", "linuxmint", "pop", "elementary"} |-> "apt"] @@
    [d \in {"fedora", "rhel", "centos", "rocky", "almalinux"} |-> "dnf"] @@
    [d \in {"arch", "manjaro", "endeavouros"} |-> "pacman"] @@
    [d \in {"opensuse", "suse"} |-> "zypper"] @@
    [d \in {"darwin"} |-> "brew"]

INSTALL_COMMANDS ==
    [apt    |-> "sudo apt update && sudo apt install -y {}",
     dnf    |-> "sudo dnf install -y {}",
     pacman |-> "sudo pacman -S --noconfirm {}",
     zypper |-> "sudo zypper install -y {}",
     brew   |-> "brew install {}",
     pkg    |-> "pkg install {}",
     apk    |-> "apk add {}",
     yum    |-> "sudo yum install -y {}",
     emerge |-> "sudo emerge {}",
     xbps   |-> "sudo xbps-install -y {}"]

\* PackageManagerOf with 'unknown' as the default
PackageManagerOf_unknown(dist_id) ==
    IF dist_id \in DOMAIN PACKAGE_MANAGERS THEN PACKAGE_MANAGERS[dist_id] ELSE "unknown"

\* PACKAGE_MANAGERS.get(dist_id, 'apt')
PackageManagerOf(dist_id) ==
    IF dist_id \in DOMAIN PACKAGE_MANAGERS THEN PACKAGE_MANAGERS[dist_id] ELSE "apt"

\* line.split('=')[1]: the text between the first and the second "="
RECURSIVE UpToEquals(_)
UpToEquals(s) ==
    IF s = "" \/ Char(s, 1) = "=" THEN ""
    ELSE Char(s, 1) \o UpToEquals(SubSeq(s, 2, Len(s)))

RECURSIVE AfterEquals(_)
AfterEquals(s) ==
    IF s = "" THEN ""
    ELSE IF Char(s, 1) = "=" THEN SubSeq(s, 2, Len(s))
    ELSE AfterEquals(SubSeq(s, 2, Len(s)))

SecondField(line) == UpToEquals(AfterEquals(line))

RECURSIVE StripQuotes(_)
\* str.strip('"')
StripQuotes(s) ==
    IF s # "" /\ Char(s, 1) = "\"" THEN StripQuotes(SubSeq(s, 2, Len(s)))
    ELSE IF s # "" /\ Char(s, Len(s)) = "\"" THEN StripQuotes(SubSeq(s, 1, Len(s) - 1))
    ELSE s

RECURSIVE OsReleaseScan(_, _)
\* the loop over the lines of /etc/os-release; 'apt' when no line starts with ID=
OsReleaseScan(lines, i) ==
    IF i > Len(lines) THEN "apt"
    ELSE IF SubSeq(lines[i], 1, 3) = "ID="
    THEN PackageManagerOf(Lower(StripQuotes(Strip(SecondField(lines[i])))))
    ELSE OsReleaseScan(lines, i + 1)

\* host: os_name (platform.system().lower()), distro_id (what distro.id()
\* returns, or "raises"), os_release (the lines of /etc/os-release, or unreadable)
DetectPackageManager(host) ==
    IF host.os_name = "linux"
    THEN IF ~host.distro_raises
         THEN PackageManagerOf(Lower(host.distro_id))
         ELSE IF host.os_release_readable
         THEN OsReleaseScan(host.os_release, 1)
         ELSE "apt"
    ELSE IF host.os_name = "darwin" THEN "brew"
    ELSE IF host.os_name = "windows" THEN "choco"
    ELSE "unknown"

\* SystemDetector.__init__; `host` keeps what platform, distro and
\* /etc/os-release gave when the detector was built
NewSystemDetector(host) ==
    [os_name |-> host.os_name, package_manager |-> DetectPackageManager(host),
     host |-> host]

\* the position of the replacement field {} of a template
SlotOf(template) ==
    CHOOSE i \in 1..(Len(template) - 1) : SubSeq(template, i, i + 1) = "{}"

\* str.format with one positional argument on a template whose only field is {}
Format(template, arg) ==
    LET slot == SlotOf(template) IN
    SubSeq(template, 1, slot - 1) \o arg \o SubSeq(template, slot + 2, Len(template))

\* GetInstallCommand that falls back to the apt template
GetInstallCommand_apt_default(detector, package) ==
    IF detector.package_manager \in DOMAIN INSTALL_COMMANDS
    THEN Format(INSTALL_COMMANDS[detector.package_manager], package)
    ELSE Format(INSTALL_COMMANDS["apt"], package)

GetInstallCommand(detector, package) ==
    IF detector.package_manager \in DOMAIN INSTALL_COMMANDS
    THEN Format(INSTALL_COMMANDS[detector.package_manager], package)
    ELSE ""

-----------------------------------------------------------------------------
(* Bounds and input sets *)

\* longest model reply, in lines, from which a batch is extracted
MaxBatch == 3

\* the host the sessions of Spec are constructed on
Hosts ==
    {[os_name |-> "linux", distro_raises |-> FALSE, distro_id |-> "ubuntu",
      os_release_readable |-> TRUE, os_release |-> <<"NAME=\"Ubuntu\"\n", "ID=ubuntu\n">>]}

\* a host: what platform.system().lower() gives, whether distro.id() raises
\* and what it returns, whether /etc/os-release can be read and its lines
Host(os_name, distro_raises, distro_id, os_release_readable, os_release) ==
    [os_name |-> os_name, distro_raises |-> distro_raises, distro_id |-> distro_id,
     os_release_readable |-> os_release_readable, os_release |-> os_release]

UbuntuHost == Host("linux", FALSE, "ubuntu", TRUE, <<"NAME=\"Ubuntu\"\n", "ID=ubuntu\n">>)

\* distro.id() answers in capitals
FedoraHost == Host("linux", FALSE, "Fedora", TRUE, <<"ID=fedora\n">>)

\* a distribution PACKAGE_MANAGERS does not list
NixosHost == Host("linux", FALSE, "nixos", TRUE, <<"ID=nixos\n">>)

\* distro.id() raises and /etc/os-release names the distribution
ArchHost ==
    Host("linux", TRUE, "", TRUE,
         <<"NAME=\"Arch Linux\"\n", "ID_LIKE=archlinux\n", "ID=\"arch\"\n">>)

\* distro.id() raises and /etc/os-release names a distribution not listed
VoidHost == Host("linux", TRUE, "", TRUE, <<"NAME=\"Void\"\n", "ID=void\n">>)

\* distro.id() raises and /etc/os-release has no ID= line
NoIdHost == Host("linux", TRUE, "", TRUE, <<"NAME=\"Linux\"\n", "ID_LIKE=debian\n">>)

\* distro.id() raises and /etc/os-release cannot be opened
BareHost == Host("linux", TRUE, "", FALSE, <<>>)

DarwinHost == Host("darwin", FALSE, "darwin", FALSE, <<>>)

WindowsHost == Host("windows", FALSE, "", FALSE, <<>>)

FreebsdHost == Host("freebsd", FALSE, "freebsd", TRUE, <<"ID=freebsd\n">>)

\* the hosts the sessions of SpecHosts are constructed on
AllHosts ==
    {UbuntuHost, FedoraHost, NixosHost, ArchHost, VoidHost, NoIdHost, BareHost,
     DarwinHost, WindowsHost, FreebsdHost}

\* values of "safety_level" a configuration file holds (json.load checks nothing)
ConfigLevels == {"low", "paranoid"}

\* arguments of set_safety_level
LevelInputs == {"high", " Medium ", "LOW", "paranoid", ""}

\* what the operator types at a yes/no prompt
OperatorLines == {"yes", " Y ", "no", ""}

OperatorInputs == {Line(t) : t \in OperatorLines} \cup {Eof, Interrupt}

\* what the operator types at "Use this command? (yes/no/custom)"
InstallChoices == OperatorInputs \cup {Line("custom")}

ShellResults ==
    {Exit(0, "done\n", ""), Exit(2, "out\n", "err\n"), LaunchFailure, ShellInterrupt}

\* commands given to exec:
Commands ==
    {"ls -la", "sudo rm -rf /tmp/x", "echo sudo", "rm myfile.txt",
     "dd if=/dev/zero of=/dev/sda", "halt", "mkfs.ext4 /dev/sdb1", "git init",
     "shutdown -h now", "sudo ls", "echo \"abc", "",
     "sudo", "'rm' -f x", "poweroff", "sudo adduser bob", "reboot"}

\* lines of a model reply
BatchLines == {"ls -la", "  sudo rm -rf /tmp/x ", "echo \"abc", "", "# retry"}

Replies == UNION {[1..n -> BatchLines] : n \in 1..MaxBatch}

Packages == {"vim", "python3-pip"}

-----------------------------------------------------------------------------
(* Handlers' pure parts *)

VALID_LEVELS == {"high", "medium", "low"}

\* SetSafetyLevel without the membership test
SetSafetyLevel_unchecked(current, level_arg) ==
    LET level == Strip(Lower(level_arg)) IN
    [assigned |-> TRUE, safety_level |-> level,
     text |-> "Safety level changed to: " \o level]

\* set_safety_level: the new value of self.safety_level and the returned text
SetSafetyLevel(current, level_arg) ==
    LET level == Strip(Lower(level_arg)) IN
    IF level \notin VALID_LEVELS
    THEN [assigned |-> FALSE, safety_level |-> current,
          text |-> "Invalid safety level: " \o level \o ". Valid options are: high, medium, low"]
    ELSE [assigned |-> TRUE, safety_level |-> level,
          text |-> "Safety level changed to: " \o level]

RECURSIVE ExtractCommands(_, _, _)
\* [cmd.strip() for cmd in lines if cmd.strip()], and for fix_issue also
\* without the lines that start with #
ExtractCommands(lines, i, skip_comments) ==
    IF i > Len(lines) THEN <<>>
    ELSE LET cmd == Strip(lines[i])
             rest == ExtractCommands(lines, i + 1, skip_comments)
         IN IF cmd = "" \/ (skip_comments /\ SubSeq(cmd, 1, 1) = "#")
            THEN rest
            ELSE <<cmd>> \o rest

\* one entry of `results`
Outcome(cmd, return_code, output) ==
    [cmd |-> cmd, return_code |-> return_code, output |-> output]

\* NextCommand walking the list from its end
NextCommand_reversed(cmds, i) == cmds[Len(cmds) - i]

\* the command the loop hands to _execute_command in iteration i + 1
NextCommand(cmds, i) == cmds[i + 1]

\* InstallBreaks without the break
InstallBreaks_never(call) == FALSE

\* auto_install: `if return_code != 0: ... break`
InstallBreaks(call) == call.return_code # 0

\* auto_install: `results` after one iteration
InstallResults(res, cmd, call) ==
    LET r1 == Append(res, Outcome(cmd, call.return_code, call.output)) IN
    IF InstallBreaks(call)
    THEN Append(r1, Outcome("INSTALLATION FAILED", call.return_code,
                            "Stopping installation process due to error."))
    ELSE r1

\* FixBreaks that stops at a failure whatever the operator answers
FixBreaks_always(call, continue_answer) == call.return_code # 0

\* fix_issue: `if continue_confirmation not in ["yes", "y"]: break`
FixBreaks(call, continue_answer) ==
    call.return_code # 0 /\ Confirmation(continue_answer.text) \notin YES_ANSWERS

\* sum(1 for _, code, _ in results if code == 0)
SuccessCount(res) == Cardinality({i \in 1..Len(res) : res[i].return_code = 0})

Status(return_code) == IF return_code = 0 THEN "SUCCESS" ELSE "FAILED"

\* the text auto_install returns, as its parts
InstallationSummary(cmds, res) ==
    [kind |-> "INSTALLATION SUMMARY",
     success_count |-> SuccessCount(res),
     total |-> Len(cmds),
     blocks |-> [i \in 1..Len(res) |->
                   [cmd |-> res[i].cmd, status |-> Status(res[i].return_code),
                    output |-> IF res[i].return_code # 0 THEN res[i].output ELSE ""]],
     installed |-> SuccessCount(res) = Len(cmds)]

\* the text fix_issue returns, as its parts
FixSummary(cmds, res) ==
    [kind |-> "FIX OPERATION SUMMARY",
     success_count |-> SuccessCount(res),
     total |-> Len(cmds),
     blocks |-> [i \in 1..Len(res) |->
                   [cmd |-> res[i].cmd, status |-> Status(res[i].return_code),
                    output |-> res[i].output]],
     installed |-> FALSE]

Text(kind, text) == [kind |-> kind, text |-> text]

NoResponse == Text("", "")

NoContinue == [asked |-> FALSE, answer |-> NoInput]

-----------------------------------------------------------------------------
(* The session *)

\* load_config: the file has a "safety_level" entry or none
Configs ==
    {[has_level |-> FALSE, safety_level |-> ""]} \cup
    {[has_level |-> TRUE, safety_level |-> l] : l \in ConfigLevels}

\* self.config.get('safety_level', 'high')
ConfiguredLevel(config) == IF config.has_level THEN config.safety_level ELSE "high"

\* TerminalAssistant.__init__, then main waits at its prompt
Init ==
    /\ \E host \in Hosts : system_detector = NewSystemDetector(host)
    /\ \E config \in Configs :
          /\ safety_level = ConfiguredLevel(config)
          /\ level_source = IF config.has_level THEN "config" ELSE "default"
    /\ pc = "idle"
    /\ commands = <<>>
    /\ idx = 0
    /\ results = <<>>
    /\ attempted = <<>>
    /\ shell_log = <<>>
    /\ last_call = NoCall
    /\ last_continue = NoContinue
    /\ response = NoResponse

\* an exception leaves the handler: main reports an Exception and goes on,
\* and leaves its loop on KeyboardInterrupt
MainCatches(input) ==
    IF input.kind = "eof"
    THEN /\ pc' = "respond"
         /\ response' = Text("Error", "Error: EOF when reading a line")
    ELSE /\ pc' = "exited"
         /\ response' = Text("Exiting", "Exiting...")

\* the test doubles after one call of _execute_command
Recorded(cmd, call) ==
    /\ last_call' = call
    /\ attempted' = Append(attempted, cmd)
    /\ shell_log' = IF call.shell_runs = 1 THEN Append(shell_log, cmd) ELSE shell_log

\* safety-level:<level>
set_safety_level ==
    /\ pc = "idle"
    /\ \E level \in LevelInputs :
          LET r == SetSafetyLevel(safety_level, level) IN
          /\ safety_level' = r.safety_level
          /\ level_source' = IF r.assigned THEN "set" ELSE level_source
          /\ response' = [kind |-> "safety-level", text |-> r.text,
                          level_arg |-> level, before |-> safety_level]
    /\ pc' = "respond"
    /\ UNCHANGED <<system_detector, commands, idx, results, attempted, shell_log,
                   last_call, last_continue>>

\* one call of _execute_command whose outcome the handler reports as text;
\* `request` keeps what the operator asked the handler for
SingleExecution(cmd, done_text, request) ==
    \E answer \in OperatorInputs, shell \in ShellResults :
        LET call == ExecuteCommand(safety_level, cmd, TRUE, answer, shell) IN
        /\ Recorded(cmd, call)
        /\ IF call.raised # ""
           THEN MainCatches(Interrupt)
           ELSE /\ pc' = "respond"
                /\ response' = [kind |-> done_text,
                                 text |-> IF call.return_code = 0 THEN "successfully"
                                          ELSE "with errors",
                                 request |-> request]

\* exec:<command>
run_with_confirmation ==
    /\ pc = "idle"
    /\ \E command \in Commands, confirmation \in OperatorInputs :
          IF confirmation.kind # "line"
          THEN /\ MainCatches(confirmation)
               /\ UNCHANGED <<attempted, shell_log, last_call>>
          ELSE IF Confirmation(confirmation.text) \in YES_ANSWERS
          THEN SingleExecution(command, "Command executed", command)
          ELSE /\ pc' = "respond"
               /\ response' = Text("cancelled", "Command execution cancelled.")
               /\ UNCHANGED <<attempted, shell_log, last_call>>
    /\ UNCHANGED <<system_detector, safety_level, level_source, commands, idx,
                   results, last_continue>>

\* the part of auto_install and fix_issue from the model's reply to the loop:
\* no commands, or the operator declines, or the loop starts
StartBatch(skip_comments, loop, none_text, cancelled_text) ==
    \E reply \in Replies :
        LET cmds == ExtractCommands(reply, 1, skip_comments) IN
        IF cmds = <<>>
        THEN /\ pc' = "respond"
             /\ response' = Text("Error", none_text)
             /\ UNCHANGED commands
        ELSE \E confirmation \in OperatorInputs :
                IF confirmation.kind # "line"
                THEN MainCatches(confirmation) /\ UNCHANGED commands
                ELSE IF Confirmation(confirmation.text) \notin YES_ANSWERS
                THEN /\ pc' = "respond"
                     /\ response' = Text("cancelled", cancelled_text)
                     /\ UNCHANGED commands
                ELSE /\ pc' = loop
                     /\ commands' = cmds
                     /\ response' = NoResponse

\* auto-install:<package>, up to the loop
auto_install ==
    /\ pc = "idle"
    /\ \E package \in Packages :
          LET system_install_cmd == GetInstallCommand(system_detector, package)
              generate ==
                  /\ StartBatch(FALSE, "auto_install",
                                "Error: Could not generate installation commands for "
                                    \o package \o ".",
                                "Installation cancelled.")
                  /\ UNCHANGED <<attempted, shell_log, last_call>>
          IN  IF system_install_cmd = ""
              THEN generate
              ELSE \E confirmation \in InstallChoices :
                      IF confirmation.kind # "line"
                      THEN /\ MainCatches(confirmation)
                           /\ UNCHANGED <<commands, attempted, shell_log, last_call>>
                      ELSE IF Confirmation(confirmation.text) \in YES_ANSWERS
                      THEN /\ SingleExecution(system_install_cmd, "Installation completed", package)
                           /\ UNCHANGED commands
                      ELSE IF Confirmation(confirmation.text) \in {"no", "n", "custom"}
                      THEN generate
                      ELSE /\ pc' = "respond"
                           /\ response' = Text("cancelled", "Installation cancelled.")
                           /\ UNCHANGED <<commands, attempted, shell_log, last_call>>
    /\ UNCHANGED <<system_detector, safety_level, level_source, idx, results,
                   last_continue>>

\* one iteration of auto_install's loop; the last one also builds the summary
auto_install_loop ==
    /\ pc = "auto_install"
    /\ idx < Len(commands)
    /\ LET cmd == NextCommand(commands, idx) IN
       \E answer \in OperatorInputs, shell \in ShellResults :
          LET call == ExecuteCommand(safety_level, cmd, TRUE, answer, shell)
              res == InstallResults(results, cmd, call)
          IN  /\ Recorded(cmd, call)
              /\ idx' = idx + 1
              /\ IF call.raised # ""
                 THEN MainCatches(Interrupt) /\ UNCHANGED results
                 ELSE /\ results' = res
                      /\ IF InstallBreaks(call) \/ idx + 1 = Len(commands)
                         THEN /\ pc' = "respond"
                              /\ response' = InstallationSummary(commands, res)
                         ELSE UNCHANGED <<pc, response>>
    /\ UNCHANGED <<system_detector, safety_level, level_source, commands, last_continue>>

\* fix:<problem>, up to the loop
fix_issue ==
    /\ pc = "idle"
    /\ StartBatch(TRUE, "fix_issue",
                  "Could not generate fix commands for the issue",
                  "Fix operation cancelled.")
    /\ UNCHANGED <<system_detector, safety_level, level_source, idx, results,
                   attempted, shell_log, last_call, last_continue>>

\* one iteration of fix_issue's loop; the last one also builds the summary
fix_issue_loop ==
    /\ pc = "fix_issue"
    /\ idx < Len(commands)
    /\ LET cmd == NextCommand(commands, idx) IN
       \E answer \in OperatorInputs, shell \in ShellResults :
          LET call == ExecuteCommand(safety_level, cmd, TRUE, answer, shell)
              res == Append(results, Outcome(cmd, call.return_code, call.output))
          IN  /\ Recorded(cmd, call)
              /\ idx' = idx + 1
              /\ IF call.raised # ""
                 THEN /\ MainCatches(Interrupt)
                      /\ UNCHANGED <<results, last_continue>>
                 ELSE /\ results' = res
                      /\ IF call.return_code = 0
                         THEN /\ last_continue' = NoContinue
                              /\ IF idx + 1 = Len(commands)
                                 THEN /\ pc' = "respond"
                                      /\ response' = FixSummary(commands, res)
                                 ELSE UNCHANGED <<pc, response>>
                         ELSE \E continue_answer \in OperatorInputs :
                                 /\ last_continue' = [asked |-> TRUE, answer |-> continue_answer]
                                 /\ IF continue_answer.kind # "line"
                                    THEN MainCatches(continue_answer)
                                    ELSE IF FixBreaks(call, continue_answer)
                                            \/ idx + 1 = Len(commands)
                                    THEN /\ pc' = "respond"
                                         /\ response' = FixSummary(commands, res)
                                    ELSE UNCHANGED <<pc, response>>
    /\ UNCHANGED <<system_detector, safety_level, level_source, commands>>

\* main prints the response and waits at its prompt again
main_print ==
    /\ pc = "respond"
    /\ pc' = "idle"
    /\ commands' = <<>>
    /\ idx' = 0
    /\ results' = <<>>
    /\ attempted' = <<>>
    /\ shell_log' = <<>>
    /\ last_call' = NoCall
    /\ last_continue' = NoContinue
    /\ response' = NoResponse
    /\ UNCHANGED <<system_detector, safety_level, level_source>>

Next ==
    \/ set_safety_level
    \/ run_with_confirmation
    \/ auto_install
    \/ auto_install_loop
    \/ fix_issue
    \/ fix_issue_loop
    \/ main_print

Spec == Init /\ [][Next]_vars

\* sessions on every host of AllHosts, with no configuration file, that are
\* given auto-install: requests only
InitHosts ==
    /\ \E host \in AllHosts : system_detector = NewSystemDetector(host)
    /\ safety_level = ConfiguredLevel([has_level |-> FALSE, safety_level |-> ""])
    /\ level_source = "default"
    /\ pc = "idle"
    /\ commands = <<>>
    /\ idx = 0
    /\ results = <<>>
    /\ attempted = <<>>
    /\ shell_log = <<>>
    /\ last_call = NoCall
    /\ last_continue = NoContinue
    /\ response = NoResponse

NextHosts ==
    \/ auto_install
    \/ auto_install_loop
    \/ main_print

SpecHosts == InitHosts /\ [][NextHosts]_vars

-----------------------------------------------------------------------------
(* Properties *)

\* the classifier returned True for the command of the last call
Flagged(call) ==
    LET verdict == IsCritical(call.level, call.command) IN
    verdict.raised = "" /\ verdict.value

\* the lines of OperatorLines that read yes or y once surrounding whitespace
\* is removed and case is ignored
AffirmativeLines == {"yes", " Y "}

\* C1: a command that requires confirmation at level low also requires it at
\* level medium and at level high (stated of every command the executor is
\* handed)
C1_Monotonicity ==
    last_call.made =>
        (IsCritical("low", last_call.command).value =>
            /\ IsCritical("medium", last_call.command).raised = ""
            /\ IsCritical("medium", last_call.command).value
            /\ IsCritical("high", last_call.command).raised = ""
            /\ IsCritical("high", last_call.command).value)

\* C2: with the gate on and the command flagged, a typed answer that is not
\* yes or y (up to case and surrounding whitespace) means the shell is not
\* invoked and the call returns status 0 with the cancellation message
C2_ConfirmationGating ==
    (/\ last_call.made
     /\ last_call.confirm_critical
     /\ Flagged(last_call)
     /\ last_call.answer.kind = "line"
     /\ last_call.answer.text \notin AffirmativeLines)
    => /\ last_call.shell_runs = 0
       /\ last_call.raised = ""
       /\ last_call.return_code = 0
       /\ last_call.output = CANCELLED
       /\ (shell_log = <<>> \/ Len(shell_log) < Len(attempted))

\* C2 witness: a flagged command, the operator just presses return, the call
\* is cancelled
C2_Witness ==
    /\ last_call.made
    /\ Flagged(last_call)
    /\ last_call.answer = Line("")
    /\ last_call.output = CANCELLED
    /\ last_call.shell_runs = 0

\* the entries of `results` that are outcomes of commands: all of them, but
\* for the marker auto_install appends after a failure
MARKER == "INSTALLATION FAILED"

HasMarker(res) == res # <<>> /\ res[Len(res)].cmd = MARKER

OutcomeCount(res) == IF HasMarker(res) THEN Len(res) - 1 ELSE Len(res)

\* a state of auto_install's loop or of its summary
InInstallBatch == pc = "auto_install" \/ response.kind = "INSTALLATION SUMMARY"

\* a state of fix_issue's loop or of its summary
InFixBatch == pc = "fix_issue" \/ response.kind = "FIX OPERATION SUMMARY"

\* C3: a stop-on-failure batch runs its commands in order up to the first
\* non-zero status, appends the marker there and executes nothing after it;
\* the reported count is the number of commands before the failure
C3_StopOnFailure ==
    InInstallBatch =>
        LET n == OutcomeCount(results) IN
        /\ Len(attempted) = n
        /\ \A i \in 1..n : attempted[i] = commands[i]
        /\ \A i \in 1..(n - 1) : results[i].return_code = 0
        /\ pc = "auto_install" =>
              /\ ~HasMarker(results)
              /\ n < Len(commands)
              /\ \A i \in 1..n : results[i].return_code = 0
        /\ response.kind = "INSTALLATION SUMMARY" =>
              /\ n >= 1
              /\ response.total = Len(commands)
              /\ IF results[n].return_code # 0
                 THEN /\ HasMarker(results)
                      /\ response.success_count = n - 1
                      /\ response.blocks[Len(results)].cmd = MARKER
                      /\ response.blocks[Len(results)].status = "FAILED"
                      /\ ~response.installed
                 ELSE /\ ~HasMarker(results)
                      /\ n = Len(commands)
                      /\ response.success_count = n

\* C3 witness: [A, B, C], A succeeds in the shell, B fails, C is never
\* attempted, the summary counts 1 and ends with the marker
C3_Witness ==
    /\ response.kind = "INSTALLATION SUMMARY"
    /\ Len(commands) = 3
    /\ attempted = SubSeq(commands, 1, 2)
    /\ shell_log = attempted
    /\ results[1].return_code = 0
    /\ results[2].return_code # 0
    /\ response.success_count = 1
    /\ HasMarker(results)

\* C4: in an ask-on-failure batch the operator is asked after a non-zero
\* status and only then; the loop goes on to the next command exactly when
\* the answer is yes or y, and stops there otherwise
C4_AskOnFailure ==
    InFixBatch =>
        /\ Len(results) = Len(attempted)
        /\ results # <<>> =>
              LET last == results[Len(results)] IN
              /\ last_continue.asked <=> last.return_code # 0
              /\ pc = "fix_issue" =>
                    /\ Len(attempted) < Len(commands)
                    /\ last.return_code # 0 =>
                          /\ last_continue.answer.kind = "line"
                          /\ last_continue.answer.text \in AffirmativeLines
              /\ (response.kind = "FIX OPERATION SUMMARY"
                    /\ Len(attempted) < Len(commands)) =>
                    /\ last.return_code # 0
                    /\ last_continue.answer.kind = "line"
                    /\ last_continue.answer.text \notin AffirmativeLines
        /\ (response.kind = "FIX OPERATION SUMMARY" /\ \A i \in 1..Len(results) :
                results[i].return_code = 0) => Len(attempted) = Len(commands)

\* C4 witness: [A, B, C], A fails, the operator answers yes, B and C are
\* both executed
C4_Witness ==
    /\ response.kind = "FIX OPERATION SUMMARY"
    /\ Len(commands) = 3
    /\ results[1].return_code # 0
    /\ attempted = commands
    /\ Len(results) = 3

\* the operator typed yes or y at the prompt of this call
AnsweredYes(call) ==
    call.answer.kind = "line" /\ call.answer.text \in AffirmativeLines

\* C5: the prompt is issued exactly when the gate is on and the classifier
\* flags the command; with no prompt, or an affirmative answer, the command
\* goes to the shell exactly once; a flagged command reaches the shell only
\* after an affirmative answer
C5_PromptDecidesShell ==
    last_call.made =>
        /\ last_call.prompted <=> (last_call.confirm_critical /\ Flagged(last_call))
        /\ (~last_call.prompted \/ AnsweredYes(last_call)) => last_call.shell_runs = 1
        /\ (last_call.shell_runs = 1 /\ Flagged(last_call)) =>
              (last_call.prompted /\ AnsweredYes(last_call))

\* C6: at level high a command that cannot be tokenized makes the classifier
\* return "confirmation required" instead of raising
C6_MalformedNeedsConfirmation ==
    (/\ last_call.made
     /\ last_call.confirm_critical
     /\ last_call.level \notin {"low", "medium"}
     /\ ShlexSplit(last_call.command).error # "")
    => IsCritical(last_call.level, last_call.command) = Returned(TRUE)

\* what the arguments of LevelInputs are once lower-cased and trimmed
C7_Normalized ==
    ("high" :> "high") @@ (" Medium " :> "medium") @@ ("LOW" :> "low") @@
    ("paranoid" :> "paranoid") @@ ("" :> "")

\* C7: set_safety_level leaves the level as it was and returns the
\* invalid-level message when its argument, lower-cased and trimmed, is not
\* high, medium or low, and otherwise sets the level to exactly that value
C7_SetSafetyLevel ==
    response.kind = "safety-level" =>
        LET level == C7_Normalized[response.level_arg] IN
        IF level \in {"high", "medium", "low"}
        THEN /\ safety_level = level
             /\ response.text = "Safety level changed to: " \o level
        ELSE /\ safety_level = response.before
             /\ response.text = "Invalid safety level: " \o level
                                  \o ". Valid options are: high, medium, low"

\* C7 witness: an invalid argument on a session whose level is low
C7_Witness ==
    /\ response.kind = "safety-level"
    /\ response.level_arg = "paranoid"
    /\ response.before = "low"
    /\ safety_level = "low"

\* C8: the safety level is always high, medium or low, and is high while
\* nothing has set it
C8_LevelIsValid ==
    /\ safety_level \in {"high", "medium", "low"}
    /\ level_source = "default" => safety_level = "high"

\* something failed inside the call: the classifier raised, the prompt hit
\* end of input, or the process could not be launched
FailedInside(call) ==
    \/ call.confirm_critical /\ IsCritical(call.level, call.command).raised # ""
    \/ call.answer.kind = "eof"
    \/ call.shell_kind = "oserror"

ReturnsError(call) ==
    /\ call.raised = ""
    /\ call.return_code = 1
    /\ SubSeq(call.output, 1, Len(ERROR_PREFIX)) = ERROR_PREFIX
    /\ Len(call.output) > Len(ERROR_PREFIX)

\* C9 as stated: no call lets anything escape, and every failure inside is
\* returned as status 1 with a message
C9_NeverRaises ==
    last_call.made =>
        /\ last_call.raised = ""
        /\ FailedInside(last_call) => ReturnsError(last_call)

\* C9 amended: every failure inside is returned as status 1 with a message,
\* and a call returns an outcome unless a KeyboardInterrupt reaches it while
\* it waits for the operator or for the process; only that escapes
C9_CatchesExceptions ==
    last_call.made =>
        /\ FailedInside(last_call) => ReturnsError(last_call)
        /\ last_call.raised \in {"", "KeyboardInterrupt"}
        /\ last_call.raised = "KeyboardInterrupt" <=>
              (last_call.answer.kind = "interrupt" \/ last_call.shell_kind = "interrupt")

\* C9 witness: the process cannot be launched and the call returns status 1
C9_Witness ==
    /\ last_call.made
    /\ last_call.shell_kind = "oserror"
    /\ last_call.raised = ""
    /\ last_call.return_code = 1

\* C10: in both loops the commands handed to the executor are a prefix of the
\* supplied list, in its order and each position once, and the recorded
\* outcomes name the same commands in the same order, one for each command
\* whose call returned
C10_OrderPreserved ==
    commands # <<>> =>
        LET n == OutcomeCount(results) IN
        /\ idx = Len(attempted)
        /\ idx <= Len(commands)
        /\ \A i \in 1..idx : attempted[i] = commands[i]
        /\ n = IF last_call.made /\ last_call.raised # "" THEN idx - 1 ELSE idx
        /\ \A i \in 1..n : results[i].cmd = commands[i]
        /\ response.kind \in {"INSTALLATION SUMMARY", "FIX OPERATION SUMMARY"} =>
              /\ Len(response.blocks) = Len(results)
              /\ \A i \in 1..n : response.blocks[i].cmd = commands[i]

\* C10 witness: three different commands, all attempted, after a failure
C10_Witness ==
    /\ response.kind = "FIX OPERATION SUMMARY"
    /\ Len(commands) = 3
    /\ commands[1] # commands[2] /\ commands[2] # commands[3] /\ commands[1] # commands[3]
    /\ attempted = commands
    /\ results[1].return_code # 0
    /\ \A i \in 1..3 : results[i].cmd = commands[i]

\* the shell tokens of every command text of the model
Tokens == [command \in CommandTexts |-> ShlexSplit(command)]

\* the command texts of the model that contain "sudo"
WithSudo ==
    {"sudo rm -rf /tmp/x", "echo sudo", "sudo ls", "sudo", "sudo adduser bob",
     "sudo apt update && sudo apt install -y vim",
     "sudo apt update && sudo apt install -y python3-pip",
     "sudo dnf install -y vim", "sudo dnf install -y python3-pip",
     "sudo pacman -S --noconfirm vim", "sudo pacman -S --noconfirm python3-pip"}

\* the command texts that have a first token and, by the high-safety policy,
\* require confirmation, and those that do not
C11_Required ==
    {"sudo rm -rf /tmp/x", "echo sudo", "rm myfile.txt",
     "dd if=/dev/zero of=/dev/sda", "shutdown -h now", "sudo ls", "sudo",
     "'rm' -f x", "sudo adduser bob", "reboot",
     "sudo apt update && sudo apt install -y vim",
     "sudo apt update && sudo apt install -y python3-pip",
     "sudo dnf install -y vim", "sudo dnf install -y python3-pip",
     "sudo pacman -S --noconfirm vim", "sudo pacman -S --noconfirm python3-pip"}

C11_NotRequired ==
    {"ls -la", "halt", "mkfs.ext4 /dev/sdb1", "git init", "# retry", "poweroff",
     "brew install vim", "brew install python3-pip"}

\* C11: at level high, for a command with a first token base: if base is
\* sudo and a second token exists, the operator is prompted when the second
\* token or sudo is a critical command; otherwise the operator is prompted
\* exactly when base is a critical command or the text contains "sudo"
C11_HighPolicy ==
    (/\ last_call.made
     /\ last_call.confirm_critical
     /\ last_call.level = "high"
     /\ Tokens[last_call.command].error = ""
     /\ Tokens[last_call.command].parts # <<>>)
    => LET parts == Tokens[last_call.command].parts
           base == parts[1]
           required ==
               IF base = "sudo" /\ Len(parts) > 1
               THEN parts[2] \in CRITICAL_COMMANDS \/ "sudo" \in CRITICAL_COMMANDS
               ELSE base \in CRITICAL_COMMANDS \/ last_call.command \in WithSudo
       IN  /\ last_call.prompted <=> required
           /\ last_call.command \in C11_Required => last_call.prompted
           /\ last_call.command \in C11_NotRequired => ~last_call.prompted
           /\ last_call.command \in C11_Required \cup C11_NotRequired

\* C11 witness: echo sudo, whose first token is not critical, is prompted for
\* at level high
C11_Witness ==
    /\ last_call.made
    /\ last_call.level = "high"
    /\ last_call.command = "echo sudo"
    /\ last_call.prompted

\* the command texts of the model that contain 'rm -rf /', 'mkfs', 'dd if=',
\* 'shutdown', 'halt' or 'poweroff'
C12_Required ==
    {"sudo rm -rf /tmp/x", "mkfs.ext4 /dev/sdb1", "dd if=/dev/zero of=/dev/sda",
     "shutdown -h now", "halt", "poweroff"}

\* C12: at level low the operator is prompted if and only if the text
\* contains one of 'rm -rf /', 'mkfs', 'dd if=', 'shutdown', 'halt',
\* 'poweroff'; the classifier raises for no text
C12_LowPolicy ==
    (/\ last_call.made
     /\ last_call.confirm_critical
     /\ last_call.level = "low")
    => /\ last_call.prompted <=> last_call.command \in C12_Required
       /\ IsCritical("low", last_call.command).raised = ""
       /\ last_call.command = "rm myfile.txt" => ~last_call.prompted
       /\ last_call.command = "dd if=/dev/zero of=/dev/sda" => last_call.prompted

\* C12 witness: dd if=/dev/zero of=/dev/sda is prompted for at level low
C12_Witness ==
    /\ last_call.made
    /\ last_call.level = "low"
    /\ last_call.command = "dd if=/dev/zero of=/dev/sda"
    /\ last_call.prompted

\* the command texts of the model that contain 'rm', 'mkfs' or 'dd'
WithRmMkfsDd ==
    {"sudo rm -rf /tmp/x", "rm myfile.txt", "dd if=/dev/zero of=/dev/sda",
     "mkfs.ext4 /dev/sdb1", "'rm' -f x", "sudo adduser bob"}

\* the command texts of the model that contain 'shutdown', 'reboot' or 'init'
WithShutdownRebootInit == {"git init", "shutdown -h now", "reboot"}

\* C13: at level medium the operator is prompted if and only if the text
\* contains 'sudo' and one of 'rm', 'mkfs', 'dd', or contains one of
\* 'shutdown', 'reboot', 'init'
C13_MediumPolicy ==
    (/\ last_call.made
     /\ last_call.confirm_critical
     /\ last_call.level = "medium")
    => /\ last_call.prompted <=>
              \/ last_call.command \in WithSudo \cap WithRmMkfsDd
              \/ last_call.command \in WithShutdownRebootInit
       /\ IsCritical("medium", last_call.command).raised = ""

\* C13 witness: sudo adduser bob, which holds 'sudo' and 'dd', is prompted
\* for at level medium
C13_Witness ==
    /\ last_call.made
    /\ last_call.level = "medium"
    /\ last_call.command = "sudo adduser bob"
    /\ last_call.prompted

\* what each host of AllHosts resolves to: the table entry of the identity
\* distro or /etc/os-release gives on Linux, apt when the identity is not in
\* the table or neither step gives one, brew on darwin, choco on windows,
\* unknown elsewhere
C14_Expected ==
    (UbuntuHost :> "apt") @@ (FedoraHost :> "dnf") @@ (NixosHost :> "apt") @@
    (ArchHost :> "pacman") @@ (VoidHost :> "apt") @@ (NoIdHost :> "apt") @@
    (BareHost :> "apt") @@ (DarwinHost :> "brew") @@ (WindowsHost :> "choco") @@
    (FreebsdHost :> "unknown")

\* C14: the package manager of a session is a function of what the host
\* gives: on Linux the table entry of the detected identity, apt for an
\* identity not in the table or when both detection steps fail, brew on
\* darwin, choco on windows, unknown on every other OS family; it is always
\* one of these names, whatever step failed
C14_PackageManagerResolution ==
    LET host == system_detector.host
        package_manager == system_detector.package_manager
    IN  /\ package_manager = C14_Expected[host]
        /\ package_manager \in {"apt", "dnf", "pacman", "zypper", "brew", "choco", "unknown"}
        /\ host.os_name = "darwin" => package_manager = "brew"
        /\ host.os_name = "windows" => package_manager = "choco"
        /\ host.os_name \notin {"linux", "darwin", "windows"} => package_manager = "unknown"
        /\ (host.os_name = "linux" /\ host.distro_raises /\ ~host.os_release_readable)
              => package_manager = "apt"
        /\ host.os_name = "linux" => package_manager \in {"apt", "dnf", "pacman", "zypper", "brew"}

\* C14 witness: distro.id() raises, /etc/os-release cannot be opened, and
\* the session offers and runs the apt command
C14_Witness ==
    /\ system_detector.host = BareHost
    /\ system_detector.package_manager = "apt"
    /\ last_call.made
    /\ last_call.command = "sudo apt update && sudo apt install -y vim"

\* the template of each package manager the hosts of AllHosts resolve to,
\* with each package of Packages in its slot
C15_Expected ==
    [apt    |-> [p \in Packages |->
                   IF p = "vim" THEN "sudo apt update && sudo apt install -y vim"
                   ELSE "sudo apt update && sudo apt install -y python3-pip"],
     dnf    |-> [p \in Packages |->
                   IF p = "vim" THEN "sudo dnf install -y vim"
                   ELSE "sudo dnf install -y python3-pip"],
     pacman |-> [p \in Packages |->
                   IF p = "vim" THEN "sudo pacman -S --noconfirm vim"
                   ELSE "sudo pacman -S --noconfirm python3-pip"],
     brew   |-> [p \in Packages |->
                   IF p = "vim" THEN "brew install vim"
                   ELSE "brew install python3-pip"]]

\* C15: the command auto-install offers is the template of the resolved
\* package manager with the package name in its slot and nothing else
\* changed; with no template (choco, unknown) there is no such command and
\* the session goes to generated commands; working the command out runs
\* nothing, so a declined offer leaves no call behind
C15_GetInstallCommand ==
    LET package_manager == system_detector.package_manager IN
    /\ response.kind = "Installation completed" =>
          /\ package_manager \in DOMAIN C15_Expected
          /\ last_call.command = C15_Expected[package_manager][response.request]
          /\ attempted = <<last_call.command>>
    /\ (package_manager = "apt" /\ response.kind = "Installation completed"
           /\ response.request = "vim") =>
          last_call.command = "sudo apt update && sudo apt install -y vim"
    /\ package_manager \in {"choco", "unknown"} =>
          /\ response.kind # "Installation completed"
          /\ last_call.made => commands # <<>>
    /\ response.kind = "cancelled" =>
          /\ ~last_call.made
          /\ attempted = <<>>
          /\ shell_log = <<>>

\* C15 witness: auto-install:vim on an apt host, the offered command is
\* accepted and handed to the executor
C15_Witness ==
    /\ response.kind = "Installation completed"
    /\ response.request = "vim"
    /\ system_detector.package_manager = "apt"
    /\ last_call.command = "sudo apt update && sudo apt install -y vim"
    /\ attempted = <<"sudo apt update && sudo apt install -y vim">>

\* the operator was prompted for this call and typed something other than
\* yes or y
Cancelled(call) ==
    /\ call.made
    /\ call.prompted
    /\ call.answer.kind = "line"
    /\ call.answer.text \notin AffirmativeLines

\* the positions of `results` that hold cancelled commands
CancelledOutcomes == {i \in 1..Len(results) : results[i].output = CANCELLED}

\* C16: a cancelled command has status 0; a stop-on-failure batch does not
\* stop at it and an ask-on-failure batch does not ask after it, so the loop
\* goes on while commands remain; every cancelled command is reported as
\* SUCCESS and counted, and a stop-on-failure batch whose commands were all
\* cancelled reports all of them successful
C16_CancelledCountsAsSuccess ==
    /\ Cancelled(last_call) =>
          /\ last_call.return_code = 0
          /\ last_call.shell_runs = 0
    /\ (InInstallBatch /\ Cancelled(last_call)) =>
          /\ ~HasMarker(results)
          /\ Len(results) = Len(attempted)
          /\ Len(results) \in CancelledOutcomes
          /\ pc = "auto_install" <=> Len(attempted) < Len(commands)
    /\ (InFixBatch /\ Cancelled(last_call)) =>
          /\ ~last_continue.asked
          /\ Len(results) \in CancelledOutcomes
          /\ pc = "fix_issue" <=> Len(attempted) < Len(commands)
    /\ (InInstallBatch \/ InFixBatch) =>
          \A i \in CancelledOutcomes :
             /\ results[i].return_code = 0
             /\ i < Len(results) => results[i + 1].cmd = commands[i + 1]
    /\ response.kind \in {"INSTALLATION SUMMARY", "FIX OPERATION SUMMARY"} =>
          /\ \A i \in CancelledOutcomes : response.blocks[i].status = "SUCCESS"
          /\ response.success_count >= Cardinality(CancelledOutcomes)
          /\ response.success_count =
                Cardinality(CancelledOutcomes) +
                Cardinality({i \in 1..Len(results) :
                               i \notin CancelledOutcomes /\ results[i].return_code = 0})
    /\ (response.kind = "INSTALLATION SUMMARY"
           /\ CancelledOutcomes = 1..Len(results)) =>
          /\ Len(results) = Len(commands)
          /\ response.success_count = response.total
          /\ response.installed
          /\ shell_log = <<>>

\* C16 witness: a stop-on-failure batch of three commands, each cancelled at
\* its prompt, nothing reaches the shell and the summary counts 3 of 3
C16_Witness ==
    /\ response.kind = "INSTALLATION SUMMARY"
    /\ Len(commands) = 3
    /\ CancelledOutcomes = {1, 2, 3}
    /\ shell_log = <<>>
    /\ response.success_count = 3
    /\ response.installed

\* shlex.split raises for the text, or gives no token
NoTokens(command) ==
    Tokens[command].error # "" \/ Tokens[command].parts = <<>>

\* the call neither prompted nor reached the shell, and returned status 1
FailedBeforePrompt(call) ==
    /\ ~call.prompted
    /\ call.shell_runs = 0
    /\ call.raised = ""
    /\ call.return_code = 1

\* a text of blanks only, which no handler passes on but the executor accepts
C17_WhitespaceOnly ==
    \A answer \in OperatorInputs, shell \in ShellResults :
        FailedBeforePrompt(ExecuteCommand("high", "   ", TRUE, answer, shell))

\* C17: at level high with the gate on, a command that cannot be tokenized
\* or has no token is not prompted for and not handed to the shell, and the
\* call returns status 1; a stop-on-failure batch ends there with its marker
C17_UntokenizableFails ==
    /\ (/\ last_call.made
         /\ last_call.confirm_critical
         /\ last_call.level = "high"
         /\ NoTokens(last_call.command))
        => /\ FailedBeforePrompt(last_call)
           /\ Len(shell_log) < Len(attempted)
           /\ attempted[Len(attempted)] = last_call.command
           /\ InInstallBatch =>
                 /\ response.kind = "INSTALLATION SUMMARY"
                 /\ HasMarker(results)
                 /\ results[Len(results) - 1].cmd = last_call.command
                 /\ results[Len(results) - 1].return_code = 1
                 /\ Len(results) - 1 = Len(attempted)
                 /\ response.success_count = Len(attempted) - 1
    /\ NoTokens("") /\ NoTokens("   ") /\ NoTokens("echo \"abc")
    /\ C17_WhitespaceOnly

\* C17 witness: a stop-on-failure batch of three commands at level high whose
\* second command has an unclosed quote: the batch ends there, and only the
\* first command reached the shell
C17_Witness ==
    /\ response.kind = "INSTALLATION SUMMARY"
    /\ safety_level = "high"
    /\ Len(commands) = 3
    /\ commands[2] = "echo \"abc"
    /\ last_call.command = "echo \"abc"
    /\ FailedBeforePrompt(last_call)
    /\ Len(attempted) = 2
    /\ shell_log = <<commands[1]>>
    /\ HasMarker(results)

====
